---- MODULE Spec2Model ----
(***************************************************************************)
(* The VGA text-mode writer of src/vga_buffer.rs: attribute packing, the   *)
(* Writer (write_byte, write_string, new_line, clear_row) over the 25 x 80 *)
(* grid of cells, and the lock-guarded global WRITER behind _print.        *)
(***************************************************************************)
EXTENDS Integers, Sequences, FiniteSets, TLC

VARIABLES
    palette,          \* the (foreground, background) pair given to ColorCode::new
    column_position,  \* Writer.column_position
    color_code,       \* Writer.color_code
    buffer,           \* Writer.buffer.chars: row -> col -> ScreenChar
    fault,            \* an array index left the grid (Rust panics on it)
    call,             \* the last call on the writer: [op, arg]
    column0,          \* column_position when the last call started
    buffer0,          \* buffer when the last call started
    touched,          \* cells read or written by the last call
    scrolled,         \* for each new_line the last call ran: index of the byte that ran it
    ncalls,           \* calls made so far
    invoked,          \* write_byte invocations of the last call
    stores,           \* the cells write_byte itself stored in the last call: [at, row, col]
    stale,            \* reads of new_line, in the last call, of a cell it had already changed
    line,             \* the bytes stored in the bottom row since the last new_line
    lines,            \* new_line runs so far
    stream,           \* every byte handed to write_byte so far
    lock,             \* the spin::Mutex around the Writer: "free" or the context holding it
    pc,               \* where each context is in _print
    pos,              \* per context: the fragment and the byte of it written next
    loc,              \* per context: the locals of write_byte (row, col, byte, color_code)
    failed,           \* per context: an attempt to take the lock found it held
    applied,          \* the bytes handed to write_byte, in order, each with its caller
    owner,            \* per cell: the write_byte call that stored each of its two bytes
    once,             \* the Once behind the lazy static WRITER: "incomplete", "running", "complete"
    inits             \* runs of the WRITER initialiser so far

writer == <<column_position, color_code, buffer, fault>>
ghost == <<call, column0, buffer0, touched, scrolled, ncalls, invoked, stores,
          stale, line, lines, stream>>
conc == <<lock, pc, pos, loc, failed, applied, owner, once, inits>>
vars == <<palette, writer, ghost, conc>>

----------------------------------------------------------------------------
\* Bounds of the model

MaxCalls == 2

\* calls of write_byte and write_string made before clear_row is tried
MaxFills == 1

----------------------------------------------------------------------------
\* Color and ColorCode

Color == [Black |-> 0, Blue |-> 1, Green |-> 2, Cyan |-> 3, Red |-> 4,
          Magenta |-> 5, Brown |-> 6, LightGray |-> 7, DarkGray |-> 8,
          LightBlue |-> 9, LightGreen |-> 10, LightCyan |-> 11,
          LightRed |-> 12, Pink |-> 13, Yellow |-> 14, White |-> 15]

ColorNames == DOMAIN Color

U8 == 256

\* x << n on a u8: the bits shifted past bit 7 are lost
Shl8(x, n) == (x * (2 ^ n)) % U8

\* x | y on u8, bit by bit
RECURSIVE BitOr(_, _)
BitOr(x, y) ==
    IF x = 0 THEN y
    ELSE IF y = 0 THEN x
    ELSE (IF (x % 2 = 1) \/ (y % 2 = 1) THEN 1 ELSE 0) + 2 * BitOr(x \div 2, y \div 2)

\* ColorCode::new with a wrong shift width
ColorCode_new_shift3(foreground, background) ==
    BitOr(Shl8(Color[background], 3), Color[foreground])

ColorCode_new(foreground, background) ==
    BitOr(Shl8(Color[background], 4), Color[foreground])

----------------------------------------------------------------------------
\* ScreenChar, Buffer

BUFFER_HEIGHT == 25
BUFFER_WIDTH == 80

NEWLINE == 10
SPACE == 32
PRINTABLE_LO == 32
PRINTABLE_HI == 126
PLACEHOLDER == 254

ScreenChar(ascii_character, code) ==
    [ascii_character |-> ascii_character, color_code |-> code]

Rows == 0 .. BUFFER_HEIGHT - 1
Cols == 0 .. BUFFER_WIDTH - 1

InGrid(row, col) == row \in Rows /\ col \in Cols

----------------------------------------------------------------------------
\* Writer.  An operation takes and returns `self`, the writer's fields with
\* the bookkeeping of the call in progress:
\*   [column_position, color_code, buffer, fault, touched, scrolled, at,
\*    invoked, stores, stale, orig, line, lines]
\* where `at` is the index of the byte of the call being written and `orig`
\* is the grid as the new_line in progress found it.

\* self.buffer.chars[row][col].write(character); an index outside the
\* array panics and nothing after it runs
WriteCell(self, row, col, character) ==
    IF self.fault THEN self
    ELSE IF ~InGrid(row, col) THEN [self EXCEPT !.fault = TRUE]
    ELSE [self EXCEPT !.buffer[row][col] = character, !.touched = @ + 1]

\* let character = chars[row][col].read(); chars[row - 1][col].write(character)
CopyUp(self, row, col) ==
    IF self.fault THEN self
    ELSE IF ~InGrid(row, col) THEN [self EXCEPT !.fault = TRUE]
    ELSE WriteCell([self EXCEPT !.touched = @ + 1,
                                !.stale = IF self.buffer[row][col] = self.orig[row][col]
                                          THEN @ ELSE @ + 1],
                   row - 1, col, self.buffer[row][col])

\* The loops below run their iterations lo, lo+1, .., hi-1 in ascending order,
\* each on the state the one before left; a range is split in two halves so
\* that the evaluation stays shallow.

\* for col in lo..hi { self.buffer.chars[row][col].write(blank) }
RECURSIVE ClearCols(_, _, _, _)
ClearCols(self, row, lo, hi) ==
    IF self.fault \/ lo >= hi THEN self
    ELSE IF hi = lo + 1
    THEN WriteCell(self, row, lo, ScreenChar(SPACE, self.color_code))
    ELSE LET mid == (lo + hi) \div 2
         IN  ClearCols(ClearCols(self, row, lo, mid), row, mid, hi)

\* clear_row with its loop started at column 1
clear_row_from_1(self, row) == ClearCols(self, row, 1, BUFFER_WIDTH)

clear_row(self, row) == ClearCols(self, row, 0, BUFFER_WIDTH)

\* for col in lo..hi { copy (row, col) to (row - 1, col) }
RECURSIVE CopyCols(_, _, _, _)
CopyCols(self, row, lo, hi) ==
    IF self.fault \/ lo >= hi THEN self
    ELSE IF hi = lo + 1 THEN CopyUp(self, row, lo)
    ELSE LET mid == (lo + hi) \div 2
         IN  CopyCols(CopyCols(self, row, lo, mid), row, mid, hi)

\* the rows copied up from the bottom row to row 1, as with
\* for row in (lo..hi).rev()
RECURSIVE ShiftRows_descending(_, _, _)
ShiftRows_descending(self, lo, hi) ==
    IF self.fault \/ lo >= hi THEN self
    ELSE IF hi = lo + 1 THEN CopyCols(self, lo, 0, BUFFER_WIDTH)
    ELSE LET mid == (lo + hi) \div 2
         IN  ShiftRows_descending(ShiftRows_descending(self, mid, hi), lo, mid)

\* for row in lo..hi { for col in 0..BUFFER_WIDTH { copy up } }
RECURSIVE ShiftRows(_, _, _)
ShiftRows(self, lo, hi) ==
    IF self.fault \/ lo >= hi THEN self
    ELSE IF hi = lo + 1 THEN CopyCols(self, lo, 0, BUFFER_WIDTH)
    ELSE LET mid == (lo + hi) \div 2
         IN  ShiftRows(ShiftRows(self, lo, mid), mid, hi)

\* new_line without the clearing of the bottom row
new_line_noclear(self) ==
    LET shifted == ShiftRows([self EXCEPT !.orig = self.buffer], 1, BUFFER_HEIGHT)
    IN  IF shifted.fault THEN shifted
        ELSE [shifted EXCEPT !.column_position = 0,
                             !.scrolled = Append(@, self.at),
                             !.line = <<>>,
                             !.lines = @ + 1]

new_line(self) ==
    LET shifted == ShiftRows([self EXCEPT !.orig = self.buffer], 1, BUFFER_HEIGHT)
        cleared == clear_row(shifted, BUFFER_HEIGHT - 1)
    IN  IF cleared.fault THEN cleared
        ELSE [cleared EXCEPT !.column_position = 0,
                             !.scrolled = Append(@, self.at),
                             !.line = <<>>,
                             !.lines = @ + 1]

\* the test of the column with > for >=
Wrap_strict(self) ==
    IF self.column_position > BUFFER_WIDTH THEN new_line(self) ELSE self

\* if self.column_position >= BUFFER_WIDTH { self.new_line(); }
Wrap(self) ==
    IF self.column_position >= BUFFER_WIDTH THEN new_line(self) ELSE self

\* the `byte =>` arm with the column advanced before the store
PutByte_advance_first(self, byte) ==
    LET wrapped == Wrap(self)
        row == BUFFER_HEIGHT - 1
        col == wrapped.column_position + 1
        code == wrapped.color_code
        stored == WriteCell(wrapped, row, col, ScreenChar(byte, code))
    IN  IF stored.fault THEN stored
        ELSE [stored EXCEPT !.column_position = @ + 1,
                            !.stores = Append(@, [at |-> self.at, row |-> row, col |-> col]),
                            !.line = Append(@, byte)]

\* the `byte =>` arm storing in the top row
PutByte_top_row(self, byte) ==
    LET wrapped == Wrap(self)
        row == 0
        col == wrapped.column_position
        code == wrapped.color_code
        stored == WriteCell(wrapped, row, col, ScreenChar(byte, code))
    IN  IF stored.fault THEN stored
        ELSE [stored EXCEPT !.column_position = @ + 1,
                            !.stores = Append(@, [at |-> self.at, row |-> row, col |-> col]),
                            !.line = Append(@, byte)]

\* the `byte =>` arm wrapping as soon as the row is full, after the store
PutByte_eager(self, byte) ==
    LET row == BUFFER_HEIGHT - 1
        col == self.column_position
        code == self.color_code
        stored == WriteCell(self, row, col, ScreenChar(byte, code))
        advanced == [stored EXCEPT !.column_position = @ + 1,
                                   !.stores = Append(@, [at |-> self.at, row |-> row, col |-> col]),
                                   !.line = Append(@, byte)]
    IN  IF stored.fault THEN stored
        ELSE IF advanced.column_position >= BUFFER_WIDTH THEN new_line(advanced)
        ELSE advanced

\* the `byte =>` arm of write_byte
PutByte(self, byte) ==
    LET wrapped == Wrap(self)
        row == BUFFER_HEIGHT - 1
        col == wrapped.column_position
        code == wrapped.color_code
        stored == WriteCell(wrapped, row, col, ScreenChar(byte, code))
    IN  IF stored.fault THEN stored
        ELSE [stored EXCEPT !.column_position = @ + 1,
                            !.stores = Append(@, [at |-> self.at, row |-> row, col |-> col]),
                            !.line = Append(@, byte)]

write_byte(self, byte) ==
    IF self.fault THEN self
    ELSE IF byte = NEWLINE THEN new_line([self EXCEPT !.invoked = @ + 1])
    ELSE PutByte([self EXCEPT !.invoked = @ + 1], byte)

\* the match of write_string with the range 0x20..0x7e taken without its end
Sanitise_exclusive(byte) ==
    IF (byte >= PRINTABLE_LO /\ byte < PRINTABLE_HI) \/ byte = NEWLINE
    THEN byte ELSE PLACEHOLDER

\* the match of write_string: the byte handed to write_byte
Sanitise(byte) ==
    IF (byte >= PRINTABLE_LO /\ byte <= PRINTABLE_HI) \/ byte = NEWLINE
    THEN byte ELSE PLACEHOLDER

\* for byte in s.bytes(), bytes lo..hi-1 of s (counted from 1)
RECURSIVE WriteBytes(_, _, _, _)
WriteBytes(self, s, lo, hi) ==
    IF self.fault \/ lo >= hi THEN self
    ELSE IF hi = lo + 1
    THEN write_byte([self EXCEPT !.at = lo], Sanitise(s[lo]))
    ELSE LET mid == (lo + hi) \div 2
         IN  WriteBytes(WriteBytes(self, s, lo, mid), s, mid, hi)

\* write_string stopping one byte short of the end of s
write_string_short(self, s) == WriteBytes(self, s, 1, Len(s))

write_string(self, s) == WriteBytes(self, s, 1, Len(s) + 1)

----------------------------------------------------------------------------
\* Inputs

\* write_string takes a &str: its bytes are valid UTF-8, so the bytes past 0x7F
\* come as the sequences of U+0080, U+07FF and U+10FFFF.

\* n printable bytes, consecutive codes from `first`, wrapping inside 0x20..0x7E
Line(n, first) ==
    [i \in 1 .. n |-> PRINTABLE_LO + ((first - PRINTABLE_LO + i - 1) % 95)]

Strings ==
    { <<>>,
      Line(1, 65),
      Line(3, 120),
      Line(BUFFER_WIDTH - 1, 48),
      Line(BUFFER_WIDTH, 97),
      Line(BUFFER_WIDTH + 1, 33),
      <<NEWLINE>>,
      <<72, 105, NEWLINE, 33>>,
      <<0, 9, 31, 127, 194, 128, 223, 191, 244, 143, 191, 191>> }

Bytes == { NEWLINE, 65, 7 }

\* what the display memory may hold before the first write
InitialGrids ==
    { [row \in Rows |-> [col \in Cols |->
          ScreenChar((row * 16 + col) % U8, 7)]],
      [row \in Rows |-> [col \in Cols |-> ScreenChar(0, 0)]] }

\* The contexts that print: two threads and an interrupt handler that
\* arrives on the processor of thread t1
Ctx == {"t1", "t2", "irq"}

Interrupts == [t1 |-> "irq", t2 |-> "none", irq |-> "none"]

\* The text each context prints, as the fragments write_fmt hands to write_str
Args == [t1 |-> << <<97, 98>>, <<NEWLINE>> >>,
         t2 |-> << <<67, 68, 69>> >>,
         irq |-> << <<33>> >>]

----------------------------------------------------------------------------
\* Initial state: WRITER as lazy_static constructs it, nothing printed yet

Boot == <<"boot", 0, 0>>

InitWriter ==
    /\ column_position = 0
    /\ buffer \in InitialGrids
    /\ fault = FALSE

InitGhost ==
    /\ call = [op |-> "none", arg |-> <<>>]
    /\ column0 = 0
    /\ buffer0 = buffer
    /\ touched = 0
    /\ scrolled = <<>>
    /\ ncalls = 0
    /\ invoked = 0
    /\ stores = <<>>
    /\ stale = 0
    /\ line = <<>>
    /\ lines = 0
    /\ stream = <<>>

InitConc ==
    /\ lock = "free"
    /\ pc = [c \in Ctx |-> "idle"]
    /\ pos = [c \in Ctx |-> [frag |-> 1, idx |-> 1]]
    /\ loc = [c \in Ctx |-> [row |-> 0, col |-> 0, byte |-> 0, color_code |-> 0]]
    /\ failed = [c \in Ctx |-> FALSE]
    /\ applied = <<>>
    /\ owner = [row \in Rows |-> [col \in Cols |-> [ch |-> Boot, cc |-> Boot]]]
    /\ once = "complete"
    /\ inits = 1

Init ==
    /\ palette = [foreground |-> "Green", background |-> "Black"]
    /\ color_code = ColorCode_new(palette.foreground, palette.background)
    /\ InitWriter
    /\ InitGhost
    /\ InitConc

----------------------------------------------------------------------------
\* The writer driven by a single context: calls of the public write_byte
\* and write_string

Self == [column_position |-> column_position, color_code |-> color_code,
         buffer |-> buffer, fault |-> fault, touched |-> 0,
         scrolled |-> <<>>, at |-> 1, invoked |-> 0, stores |-> <<>>,
         stale |-> 0, orig |-> buffer, line |-> line, lines |-> lines]

Commit(op, arg, after) ==
    /\ column_position' = after.column_position
    /\ color_code' = after.color_code
    /\ buffer' = after.buffer
    /\ fault' = after.fault
    /\ touched' = after.touched
    /\ scrolled' = after.scrolled
    /\ call' = [op |-> op, arg |-> arg]
    /\ column0' = column_position
    /\ buffer0' = buffer
    /\ ncalls' = ncalls + 1
    /\ invoked' = after.invoked
    /\ stores' = after.stores
    /\ stale' = after.stale
    /\ line' = after.line
    /\ lines' = after.lines
    /\ UNCHANGED <<palette, conc>>

WriteByte(byte) ==
    /\ ncalls < MaxCalls
    /\ ~fault
    /\ stream' = Append(stream, byte)
    /\ Commit("write_byte", <<byte>>, write_byte(Self, byte))

WriteString(s) ==
    /\ ncalls < MaxCalls
    /\ ~fault
    /\ stream' = stream \o [i \in 1 .. Len(s) |-> Sanitise(s[i])]
    /\ Commit("write_string", s, write_string(Self, s))

Next ==
    \/ \E byte \in Bytes : WriteByte(byte)
    \/ \E s \in Strings : WriteString(s)

Spec == Init /\ [][Next]_vars

----------------------------------------------------------------------------
\* _print called from several contexts:
\*     WRITER.lock().write_fmt(args).unwrap()
\* write_fmt hands each fragment of args to write_str, which is write_string.
\* The store of a ScreenChar is two byte stores, the character and then the
\* attribute; a new_line runs in one step of the context that holds the lock.

\* A context runs unless a handler that interrupted it has not returned
Runnable(c) ==
    IF Interrupts[c] = "none" THEN TRUE
    ELSE pc[Interrupts[c]] \in {"idle", "done"}

\* the Once taken by every caller that does not find it complete
OnceIncomplete_or_running == once # "complete"

\* Once::call_once runs the initialiser only for the caller that finds the
\* Once incomplete
OnceIncomplete == once = "incomplete"

\* Mutex::lock with the test of the flag left out
CanAcquire_always(c) == TRUE

\* Mutex::lock takes the lock only when it finds it free
CanAcquire(c) == lock = "free"

\* the write_byte call in progress in context c
CallId(c) == <<c, pos[c].frag, pos[c].idx>>

CurrentByte(c) == Sanitise(Args[c][pos[c].frag][pos[c].idx])

\* the position after the current byte, and where the context goes from there
Advanced(c) ==
    IF pos[c].idx < Len(Args[c][pos[c].frag])
    THEN [frag |-> pos[c].frag, idx |-> pos[c].idx + 1]
    ELSE [frag |-> pos[c].frag + 1, idx |-> 1]

AfterByte(c) == IF Advanced(c).frag > Len(Args[c]) THEN "unlock" ELSE "byte"

\* the owners of the cells after a new_line run by call id
Scrolled(id) ==
    [row \in Rows |->
        IF row < BUFFER_HEIGHT - 1 THEN owner[row + 1]
        ELSE [col \in Cols |-> [ch |-> id, cc |-> id]]]

\* a context enters _print (for the handler: the interrupt arrives)
Call(c) ==
    /\ Runnable(c)
    /\ pc[c] = "idle"
    /\ pc' = [pc EXCEPT ![c] = "deref"]
    /\ UNCHANGED <<palette, writer, ghost, lock, pos, loc, failed, applied, owner, once, inits>>

\* the first use of WRITER finds the Once incomplete and marks it running
OnceBegin(c) ==
    /\ Runnable(c)
    /\ pc[c] = "deref"
    /\ OnceIncomplete
    /\ once' = "running"
    /\ pc' = [pc EXCEPT ![c] = "init"]
    /\ UNCHANGED <<palette, writer, ghost, lock, pos, loc, failed, applied, owner,
                   inits>>

\* the initialiser: Mutex::new(Writer { column_position: 0,
\* color_code: ColorCode::new(Color::Green, Color::Black), buffer: 0xb8000 })
OnceRun(c) ==
    /\ Runnable(c)
    /\ pc[c] = "init"
    /\ column_position' = 0
    /\ color_code' = ColorCode_new("Green", "Black")
    /\ lock' = "free"
    /\ once' = "complete"
    /\ inits' = inits + 1
    /\ pc' = [pc EXCEPT ![c] = "lock"]
    /\ UNCHANGED <<palette, buffer, fault, ghost, pos, loc, failed, applied, owner>>

\* a use of WRITER that finds the Once complete goes on to the writer; one
\* that finds it running waits for the initialiser to finish
OncePass(c) ==
    /\ Runnable(c)
    /\ pc[c] = "deref"
    /\ once = "complete"
    /\ pc' = [pc EXCEPT ![c] = "lock"]
    /\ UNCHANGED <<palette, writer, ghost, lock, pos, loc, failed, applied, owner,
                   once, inits>>

\* WRITER.lock(): the flag is found free and taken
Acquire(c) ==
    /\ Runnable(c)
    /\ pc[c] = "lock"
    /\ CanAcquire(c)
    /\ lock' = c
    /\ pc' = [pc EXCEPT ![c] = "byte"]
    /\ UNCHANGED <<palette, writer, ghost, pos, loc, failed, applied, owner, once, inits>>

\* WRITER.lock(): the flag is found taken, and the context tries again
Spin(c) ==
    /\ Runnable(c)
    /\ pc[c] = "lock"
    /\ ~CanAcquire(c)
    /\ ~failed[c]
    /\ failed' = [failed EXCEPT ![c] = TRUE]
    /\ UNCHANGED <<palette, writer, ghost, lock, pc, pos, loc, applied, owner, once, inits>>

\* write_byte up to the store: the match on the byte, the test of the column,
\* and row, col and color_code read into locals
Begin(c) ==
    /\ Runnable(c)
    /\ pc[c] = "byte"
    /\ ~fault
    /\ LET byte == CurrentByte(c)
           after == IF byte = NEWLINE THEN new_line(Self) ELSE Wrap(Self)
           ran == after.scrolled # <<>>
       IN  /\ column_position' = after.column_position
           /\ buffer' = after.buffer
           /\ fault' = after.fault
           /\ applied' = Append(applied, <<c, byte>>)
           /\ owner' = IF ran THEN Scrolled(CallId(c)) ELSE owner
           /\ IF byte = NEWLINE
              THEN /\ pos' = [pos EXCEPT ![c] = Advanced(c)]
                   /\ pc' = [pc EXCEPT ![c] = AfterByte(c)]
                   /\ loc' = loc
              ELSE /\ loc' = [loc EXCEPT ![c] =
                                [row |-> BUFFER_HEIGHT - 1,
                                 col |-> after.column_position,
                                 byte |-> byte,
                                 color_code |-> after.color_code]]
                   /\ pc' = [pc EXCEPT ![c] = "store_ch"]
                   /\ pos' = pos
    /\ UNCHANGED <<palette, color_code, ghost, lock, failed, once, inits>>

\* the store of ScreenChar.ascii_character
StoreChar(c) ==
    /\ Runnable(c)
    /\ pc[c] = "store_ch"
    /\ ~fault
    /\ IF InGrid(loc[c].row, loc[c].col)
       THEN /\ buffer' = [buffer EXCEPT
                            ![loc[c].row][loc[c].col].ascii_character = loc[c].byte]
            /\ owner' = [owner EXCEPT ![loc[c].row][loc[c].col].ch = CallId(c)]
            /\ fault' = fault
       ELSE /\ fault' = TRUE
            /\ UNCHANGED <<buffer, owner>>
    /\ pc' = [pc EXCEPT ![c] = "store_cc"]
    /\ UNCHANGED <<palette, column_position, color_code, ghost, lock, pos, loc,
                   failed, applied, once, inits>>

\* the store of ScreenChar.color_code
StoreAttr(c) ==
    /\ Runnable(c)
    /\ pc[c] = "store_cc"
    /\ ~fault
    /\ buffer' = [buffer EXCEPT
                    ![loc[c].row][loc[c].col].color_code = loc[c].color_code]
    /\ owner' = [owner EXCEPT ![loc[c].row][loc[c].col].cc = CallId(c)]
    /\ pc' = [pc EXCEPT ![c] = "inc"]
    /\ UNCHANGED <<palette, column_position, color_code, fault, ghost, lock, pos,
                   loc, failed, applied, once, inits>>

\* self.column_position += 1, and on to the next byte
Inc(c) ==
    /\ Runnable(c)
    /\ pc[c] = "inc"
    /\ column_position' = column_position + 1
    /\ pos' = [pos EXCEPT ![c] = Advanced(c)]
    /\ pc' = [pc EXCEPT ![c] = AfterByte(c)]
    /\ UNCHANGED <<palette, color_code, buffer, fault, ghost, lock, loc, failed,
                   applied, owner, once, inits>>

\* the MutexGuard is dropped at the end of the statement
Release(c) ==
    /\ Runnable(c)
    /\ pc[c] = "unlock"
    /\ lock' = "free"
    /\ pc' = [pc EXCEPT ![c] = "done"]
    /\ UNCHANGED <<palette, writer, ghost, pos, loc, failed, applied, owner, once, inits>>

ConcNext ==
    \/ \E c \in Ctx : Call(c)
    \/ \E c \in Ctx : OnceBegin(c)
    \/ \E c \in Ctx : OnceRun(c)
    \/ \E c \in Ctx : OncePass(c)
    \/ \E c \in Ctx : Acquire(c)
    \/ \E c \in Ctx : Spin(c)
    \/ \E c \in Ctx : Begin(c)
    \/ \E c \in Ctx : StoreChar(c)
    \/ \E c \in Ctx : StoreAttr(c)
    \/ \E c \in Ctx : Inc(c)
    \/ \E c \in Ctx : Release(c)

\* before the first use of WRITER no Writer exists: the grid is the VGA
\* memory as it stands, the Once is incomplete
ConcInit ==
    /\ palette = [foreground |-> "Green", background |-> "Black"]
    /\ column_position = -1
    /\ color_code = -1
    /\ buffer \in InitialGrids
    /\ fault = FALSE
    /\ InitGhost
    /\ lock = "free"
    /\ pc = [c \in Ctx |-> "idle"]
    /\ pos = [c \in Ctx |-> [frag |-> 1, idx |-> 1]]
    /\ loc = [c \in Ctx |-> [row |-> 0, col |-> 0, byte |-> 0, color_code |-> 0]]
    /\ failed = [c \in Ctx |-> FALSE]
    /\ applied = <<>>
    /\ owner = [row \in Rows |-> [col \in Cols |-> [ch |-> Boot, cc |-> Boot]]]
    /\ once = "incomplete"
    /\ inits = 0

ConcSpec == ConcInit /\ [][ConcNext]_vars

----------------------------------------------------------------------------
\* clear_row on every row, once and once more, in the states the writer is
\* in after some calls

FillByte(byte) ==
    /\ ncalls < MaxFills
    /\ call.op # "clear_row"
    /\ ~fault
    /\ stream' = Append(stream, byte)
    /\ Commit("write_byte", <<byte>>, write_byte(Self, byte))

FillString(s) ==
    /\ ncalls < MaxFills
    /\ call.op # "clear_row"
    /\ ~fault
    /\ stream' = stream \o [i \in 1 .. Len(s) |-> Sanitise(s[i])]
    /\ Commit("write_string", s, write_string(Self, s))

\* clear_row(row); call.arg is the row and whether this is the first or the
\* second clear_row of it in succession
ClearRow(row) ==
    /\ ~fault
    /\ call.op = "clear_row" => call.arg = <<row, 1>>
    /\ stream' = stream
    /\ Commit("clear_row",
              <<row, IF call.op = "clear_row" THEN 2 ELSE 1>>,
              clear_row(Self, row))

ClearNext ==
    \/ \E byte \in Bytes : FillByte(byte)
    \/ \E s \in Strings : FillString(s)
    \/ \E row \in Rows : ClearRow(row)

ClearSpec == Init /\ [][ClearNext]_vars

----------------------------------------------------------------------------
\* ColorCode::new on every pair of colours

ColorInit ==
    /\ palette \in [foreground : ColorNames, background : ColorNames]
    /\ color_code = 0
    /\ InitWriter
    /\ InitGhost
    /\ InitConc

NewColorCode ==
    /\ call.op = "none"
    /\ color_code' = ColorCode_new(palette.foreground, palette.background)
    /\ call' = [op |-> "ColorCode::new", arg |-> <<>>]
    /\ UNCHANGED <<palette, column_position, buffer, fault, column0, buffer0,
                   touched, scrolled, ncalls, invoked, stores, stale, line,
                   lines, stream, conc>>

ColorNext == NewColorCode

ColorSpec == ColorInit /\ [][ColorNext]_vars

----------------------------------------------------------------------------
\* Properties of the single-context writer (Spec), stated on the last call:
\* its argument call.arg, the state it started from (column0, buffer0) and
\* the state it left.

LastRow == BUFFER_HEIGHT - 1

Blank == ScreenChar(SPACE, color_code)

Printable(byte) == byte >= PRINTABLE_LO /\ byte <= PRINTABLE_HI

PrintableLine(s) == \A i \in 1 .. Len(s) : Printable(s[i])

\* byte i of s stands in column i - 1 of row `row`
Shows(row, s) ==
    \A i \in 1 .. Len(s) : buffer[row][i - 1].ascii_character = s[i]

\* C1 as the spec states it: after write_string of fewer than 80 printable
\* bytes, byte i is in column i of the bottom row and column_position is the
\* length, whatever the column was before the call.
C1_LineAtAnyColumn ==
    (/\ call.op = "write_string"
     /\ Len(call.arg) < BUFFER_WIDTH
     /\ PrintableLine(call.arg))
    => (Shows(LastRow, call.arg) /\ column_position = Len(call.arg))

\* C1 amended: after write_string of fewer than 80 printable bytes that
\* started with column_position 0, byte i is in column i of the bottom row
\* and column_position is the length.
C1_LineFromColumn0 ==
    (/\ call.op = "write_string"
     /\ column0 = 0
     /\ Len(call.arg) < BUFFER_WIDTH
     /\ PrintableLine(call.arg))
    => (Shows(LastRow, call.arg) /\ column_position = Len(call.arg))

C1_Witness ==
    /\ call.op = "write_string"
    /\ column0 = 0
    /\ call.arg = Line(BUFFER_WIDTH - 1, 48)
    /\ Shows(LastRow, call.arg)
    /\ column_position = BUFFER_WIDTH - 1

\* Where the last call's byte i went.  A byte that ran new_line moved every
\* earlier byte up one row; a byte that ran none stands after the bytes that
\* came before it on the line.
ScrollsAfter(i) ==
    Cardinality({k \in 1 .. Len(scrolled) : scrolled[k] > i})

LastScroll(i) ==
    LET at == {scrolled[k] : k \in {k \in 1 .. Len(scrolled) : scrolled[k] <= i}}
    IN  IF at = {} THEN 0 ELSE CHOOSE j \in at : \A k \in at : k <= j

RowOf(i) == LastRow - ScrollsAfter(i)

ColOf(i) ==
    LET j == LastScroll(i)
    IN  IF j = 0 THEN column0 + i - 1
        ELSE IF call.arg[j] = NEWLINE THEN i - j - 1
        ELSE i - j

CountOf(grid, byte) ==
    Cardinality({rc \in Rows \X Cols : grid[rc[1]][rc[2]].ascii_character = byte})

\* C2: of the bytes given to write_string, a printable byte is stored as it
\* is, a newline runs new_line and is stored in no cell, and any other byte
\* is stored as the placeholder 0xFE and not as itself.
C2_Sanitised ==
    call.op = "write_string" =>
        /\ \A i \in 1 .. Len(call.arg) :
              LET b == call.arg[i]
                  cell == buffer[RowOf(i)][ColOf(i)]
              IN  IF b = NEWLINE
                  THEN \E k \in 1 .. Len(scrolled) : scrolled[k] = i
                  ELSE /\ RowOf(i) \in Rows
                       /\ ColOf(i) \in Cols
                       /\ cell.color_code = color_code
                       /\ IF Printable(b)
                          THEN cell.ascii_character = b
                          ELSE /\ cell.ascii_character = PLACEHOLDER
                               /\ cell.ascii_character # b
        /\ CountOf(buffer, NEWLINE) <= CountOf(buffer0, NEWLINE)

C2_Witness ==
    /\ call.op = "write_string"
    /\ call.arg = <<0, 9, 31, 127, 194, 128, 223, 191, 244, 143, 191, 191>>
    /\ column0 = BUFFER_WIDTH - 1
    /\ buffer[LastRow - 1][BUFFER_WIDTH - 1].ascii_character = PLACEHOLDER
    /\ buffer[LastRow][10].ascii_character = PLACEHOLDER

\* C3: write_byte of a newline sets column_position to 0, makes each row
\* 0..23 the former row below it, and leaves the 80 cells of row 24 blank
\* (space, the writer's attribute).
C3_NewlineScrolls ==
    (call.op = "write_byte" /\ call.arg = <<NEWLINE>>) =>
        /\ column_position = 0
        /\ \A row \in 0 .. LastRow - 1 : buffer[row] = buffer0[row + 1]
        /\ \A col \in Cols : buffer[LastRow][col] = Blank

C3_Witness ==
    /\ call.op = "write_byte"
    /\ call.arg = <<NEWLINE>>
    /\ column0 = BUFFER_WIDTH
    /\ column_position = 0
    /\ buffer0[LastRow][0].ascii_character = 97
    /\ buffer[LastRow - 1][0].ascii_character = 97
    /\ buffer[LastRow][0] = Blank

\* C4: from column 0, 80 printable bytes and one more scroll once, at the
\* 81st byte and not at the 80th: the 80 bytes are row 23, the 81st is at
\* column 0 of row 24, the rest of row 24 is blank and column_position is 1.
\* Stated for the 81 bytes given in one call, and for the 80 bytes and the
\* one more given in two.
C4_WrapAtByte81 ==
    /\ (/\ call.op = "write_string"
        /\ column0 = 0
        /\ Len(call.arg) = BUFFER_WIDTH + 1
        /\ PrintableLine(call.arg))
       => /\ scrolled = <<BUFFER_WIDTH + 1>>
          /\ Shows(LastRow - 1, SubSeq(call.arg, 1, BUFFER_WIDTH))
          /\ buffer[LastRow][0].ascii_character = call.arg[BUFFER_WIDTH + 1]
          /\ \A col \in 1 .. BUFFER_WIDTH - 1 : buffer[LastRow][col] = Blank
          /\ column_position = 1
    /\ (/\ call.op = "write_string"
        /\ column0 = 0
        /\ Len(call.arg) = BUFFER_WIDTH
        /\ PrintableLine(call.arg))
       => /\ scrolled = <<>>
          /\ Shows(LastRow, call.arg)
          /\ column_position = BUFFER_WIDTH
    /\ (/\ call.op \in {"write_string", "write_byte"}
        /\ column0 = BUFFER_WIDTH
        /\ Len(call.arg) = 1
        /\ PrintableLine(call.arg))
       => /\ scrolled = <<1>>
          /\ buffer[LastRow - 1] = buffer0[LastRow]
          /\ buffer[LastRow][0].ascii_character = call.arg[1]
          /\ \A col \in 1 .. BUFFER_WIDTH - 1 : buffer[LastRow][col] = Blank
          /\ column_position = 1

C4_Witness ==
    /\ call.op = "write_string"
    /\ column0 = 0
    /\ call.arg = Line(BUFFER_WIDTH + 1, 33)
    /\ scrolled = <<BUFFER_WIDTH + 1>>
    /\ column_position = 1

\* C5: column_position is always in 0..80 and no cell access of write_byte,
\* new_line or clear_row has a row outside 0..24 or a column outside 0..79.
C5_InBounds ==
    /\ column_position \in 0 .. BUFFER_WIDTH
    /\ ~fault

C5_Witness ==
    /\ column0 = BUFFER_WIDTH
    /\ call.op = "write_byte"
    /\ call.arg = <<65>>
    /\ column_position = 1
    /\ buffer[LastRow][0].ascii_character = 65
    /\ ~fault

----------------------------------------------------------------------------
\* Properties of _print called from several contexts (ConcSpec)

\* the context is inside a Writer operation
InWriter(c) == pc[c] \in {"byte", "store_ch", "store_cc", "inc"}

\* C6: at most one context is inside a Writer operation at any time, no two
\* contexts are past WRITER.lock() together, and a context inside a Writer
\* operation holds the lock.
C6_MutualExclusion ==
    /\ \A c \in Ctx : (InWriter(c) \/ pc[c] = "unlock") => lock = c
    /\ \A c1 \in Ctx : \A c2 \in Ctx \ {c1} :
          ~((InWriter(c1) \/ pc[c1] = "unlock") /\ (InWriter(c2) \/ pc[c2] = "unlock"))

C6_Witness ==
    /\ lock = "t1"
    /\ pc["t1"] = "store_cc"
    /\ pc["t2"] = "lock"
    /\ failed["t2"]

\* the bytes a context hands to write_byte, over all its fragments
RECURSIVE Flat(_, _)
Flat(c, frag) ==
    IF frag > Len(Args[c]) THEN <<>>
    ELSE [i \in 1 .. Len(Args[c][frag]) |-> Sanitise(Args[c][frag][i])]
         \o Flat(c, frag + 1)

\* the bytes of context c among those applied, in order
RECURSIVE Mine(_, _)
Mine(c, n) ==
    IF n = 0 THEN <<>>
    ELSE IF applied[n][1] = c THEN Append(Mine(c, n - 1), applied[n][2])
    ELSE Mine(c, n - 1)

IsPrefix(s, t) == Len(s) <= Len(t) /\ s = SubSeq(t, 1, Len(s))

\* the applied bytes written one after the other by write_byte, from the
\* state the writer was constructed in
RECURSIVE Replay(_)
Replay(n) ==
    IF n = 0
    THEN [Self EXCEPT !.column_position = 0, !.buffer = buffer0,
                      !.orig = buffer0, !.fault = FALSE]
    ELSE write_byte(Replay(n - 1), applied[n][2])

\* no write_byte is between its test of the column and its last store
BetweenBytes == \A c \in Ctx : pc[c] \notin {"store_ch", "store_cc", "inc"}

\* C7: the bytes applied are an interleaving of the callers' strings, each
\* caller's bytes in its own order; whenever no write_byte is under way, and
\* so when all callers are done, the grid and column_position are what
\* writing the applied bytes one after the other gives; and outside the two
\* byte stores of a cell, the character and attribute of every cell were
\* stored by one and the same write_byte call.
C7_Serialised ==
    /\ \A c \in Ctx :
          /\ IsPrefix(Mine(c, Len(applied)), Flat(c, 1))
          /\ pc[c] = "done" => Mine(c, Len(applied)) = Flat(c, 1)
    /\ (BetweenBytes /\ once = "complete") =>
          /\ column_position = Replay(Len(applied)).column_position
          /\ buffer = Replay(Len(applied)).buffer
    /\ (\A c \in Ctx : pc[c] # "store_cc") =>
          \A row \in Rows : \A col \in Cols :
              owner[row][col].ch = owner[row][col].cc

C7_Witness ==
    /\ \A c \in Ctx : pc[c] = "done"
    /\ applied = << <<"t2", 67>>, <<"t2", 68>>, <<"t2", 69>>, <<"irq", 33>>,
                    <<"t1", 97>>, <<"t1", 98>>, <<"t1", NEWLINE>> >>
    /\ buffer[LastRow - 1][3].ascii_character = 33
    /\ buffer[LastRow - 1][5].ascii_character = 98
    /\ column_position = 0

\* C8 as the spec states it: no print blocks for ever.  While some print is
\* unfinished, some context with an unfinished print can take a step other
\* than trying the lock again.
C8_NoPrintBlocksForever ==
    \/ \A c \in Ctx : pc[c] \in {"idle", "done"}
    \/ \E c \in Ctx :
          /\ pc[c] \notin {"idle", "done"}
          /\ Runnable(c)
          /\ pc[c] = "lock" => CanAcquire(c)
          /\ pc[c] = "deref" => once # "running"

\* C9 as the spec states it: a context that finds the lock held by the
\* context it interrupted does not wait for the lock but ends aborted.
C9_HeldLockAborts ==
    \A c \in Ctx :
        (/\ failed[c]
         /\ lock # "free"
         /\ lock # c
         /\ (IF lock \in Ctx THEN Interrupts[lock] = c ELSE FALSE))
        => pc[c] = "aborted"

\* what holds of the Once and the writer in every state
C14_State ==
    /\ inits <= 1
    /\ once = "complete" <=> inits = 1
    /\ \A c \in Ctx : pc[c] \notin {"idle", "deref", "init"} => once = "complete"
    /\ once = "complete" =>
          /\ color_code = 2
          /\ applied = <<>> => column_position = 0

\* what holds of every step once the writer exists
C14_Step ==
    once = "complete" =>
        /\ once' = "complete"
        /\ inits' = inits
        /\ color_code' = color_code
        /\ column_position' \in {column_position, column_position + 1, 0}
        /\ column_position' = 0 /\ column_position # 0 =>
              /\ Len(applied') = Len(applied) + 1
              /\ \/ applied'[Len(applied')][2] = NEWLINE
                 \/ column_position >= BUFFER_WIDTH

\* C14: in every interleaving of first uses of WRITER by the contexts the
\* initialiser runs exactly once, before any of them reaches the writer; the
\* writer starts at column 0 with attribute 0x02; and afterwards it is never
\* made again: the Once stays complete, the attribute stays, and
\* column_position goes back to 0 only by a new_line of a write_byte.
C14_OneWriter == [] C14_State /\ [][C14_Step]_vars

C14_Witness ==
    /\ once = "complete" /\ inits = 1
    /\ pc["t1"] = "lock" /\ pc["t2"] = "deref" /\ pc["irq"] = "idle"
    /\ applied = <<>>
    /\ column_position = 0 /\ color_code = 2

----------------------------------------------------------------------------
\* Properties of ColorCode::new (ColorSpec)

\* C10: ColorCode::new(foreground, background) is background * 16 +
\* foreground for all 16 x 16 pairs, with the codes Black = 0 .. White = 15;
\* (Green, Black) gives 0x02, (White, Red) gives 0x4F, and the result is a
\* byte.
C10_Packed ==
    /\ {Color[n] : n \in ColorNames} = 0 .. 15
    /\ Color["Black"] = 0 /\ Color["Green"] = 2 /\ Color["Red"] = 4
    /\ Color["White"] = 15
    /\ call.op = "ColorCode::new" =>
          /\ color_code = Color[palette.background] * 16 + Color[palette.foreground]
          /\ color_code \in 0 .. U8 - 1
          /\ (palette = [foreground |-> "Green", background |-> "Black"]
                => color_code = 2)
          /\ (palette = [foreground |-> "White", background |-> "Red"]
                => color_code = 79)

C10_Witness ==
    /\ call.op = "ColorCode::new"
    /\ palette = [foreground |-> "White", background |-> "Red"]
    /\ color_code = 79

----------------------------------------------------------------------------
\* Further properties of the single-context writer (Spec)

\* the stores and the new_line runs of byte i of the last call
StoresOf(i) == {k \in 1 .. Len(stores) : stores[k].at = i}

ScrollsOf(i) == {k \in 1 .. Len(scrolled) : scrolled[k] = i}

\* C11: write_string of n bytes of any value ends without a failure after
\* exactly n write_byte invocations; a newline runs new_line and stores no
\* cell, and every other byte stores exactly one cell, at row 24 and the
\* column current at its store (a byte that finds the row full runs new_line
\* first and is stored at column 0).
C11_Total ==
    call.op = "write_string" =>
        /\ ~fault
        /\ invoked = Len(call.arg)
        /\ \A i \in 1 .. Len(call.arg) :
              IF call.arg[i] = NEWLINE
              THEN /\ StoresOf(i) = {}
                   /\ Cardinality(ScrollsOf(i)) = 1
              ELSE /\ Cardinality(StoresOf(i)) = 1
                   /\ Cardinality(ScrollsOf(i)) <= 1
                   /\ \A k \in StoresOf(i) :
                         /\ stores[k].row = LastRow
                         /\ stores[k].col = ColOf(i)

C11_Witness ==
    /\ call.op = "write_string"
    /\ call.arg = Line(BUFFER_WIDTH + 1, 33)
    /\ column0 = BUFFER_WIDTH
    /\ invoked = BUFFER_WIDTH + 1
    /\ Len(stores) = BUFFER_WIDTH + 1
    /\ scrolled = <<1, BUFFER_WIDTH + 1>>
    /\ ~fault

\* the cell accesses of one new_line: a read and a write for each cell of
\* rows 1..24, and a write for each cell of the cleared row
NewLineTouches == 2 * (BUFFER_HEIGHT - 1) * BUFFER_WIDTH + BUFFER_WIDTH

\* C12 as the spec states it: a call touches at most height x width = 2000
\* cells, counting each read and each write.
C12_AtMostGrid == touched <= BUFFER_HEIGHT * BUFFER_WIDTH

\* C12 amended: a call makes one cell access for each byte it stores and
\* 3920 for each new_line it runs (1920 reads, 1920 writes, 80 blanks), all
\* inside the grid: at most 3921 for write_byte, which is below 2 x height x
\* width, and at most 3921 n for write_string of n bytes.
C12_Touches ==
    /\ ~fault
    /\ touched = Len(scrolled) * NewLineTouches + Len(stores)
    /\ call.op = "write_byte" =>
          /\ touched <= NewLineTouches + 1
          /\ touched <= 2 * BUFFER_HEIGHT * BUFFER_WIDTH
    /\ call.op = "write_string" =>
          touched <= Len(call.arg) * (NewLineTouches + 1)

C12_Witness ==
    /\ call.op = "write_byte"
    /\ call.arg = <<NEWLINE>>
    /\ touched = 3920
    /\ ~fault

----------------------------------------------------------------------------
\* Properties of clear_row (ClearSpec)

\* C13: clear_row(r), for every row r and every grid, leaves row r all
\* (space, writer attribute), every other row and column_position unchanged;
\* applied a second time in succession it changes nothing.
C13_ClearIdempotent ==
    call.op = "clear_row" =>
        /\ ~fault
        /\ \A col \in Cols : buffer[call.arg[1]][col] = Blank
        /\ \A row \in Rows \ {call.arg[1]} : buffer[row] = buffer0[row]
        /\ column_position = column0
        /\ call.arg[2] = 2 => buffer = buffer0

C13_Witness ==
    /\ call.op = "clear_row"
    /\ call.arg = <<0, 2>>
    /\ column_position = 3
    /\ buffer[0][0] = Blank
    /\ buffer[LastRow][0].ascii_character = 120
    /\ buffer = buffer0

----------------------------------------------------------------------------
\* Further properties of the single-context writer (Spec)

\* C15: a write_byte of a byte other than newline that starts at a column
\* below 80 stores (byte, attribute) in the cell of row 24 at the old column,
\* touches no other cell, and advances column_position by one; and the
\* attribute of the writer is in every state the one it was constructed with.
C15_OneCell ==
    /\ color_code = ColorCode_new(palette.foreground, palette.background)
    /\ (call.op = "write_byte" /\ call.arg[1] # NEWLINE /\ column0 < BUFFER_WIDTH) =>
          /\ ~fault
          /\ buffer = [buffer0 EXCEPT
                          ![LastRow][column0] = ScreenChar(call.arg[1], color_code)]
          /\ touched = 1
          /\ scrolled = <<>>
          /\ column_position = column0 + 1

C15_Witness ==
    /\ call = [op |-> "write_byte", arg |-> <<7>>]
    /\ column0 = BUFFER_WIDTH - 1
    /\ column_position = BUFFER_WIDTH
    /\ buffer[LastRow][BUFFER_WIDTH - 1] = ScreenChar(7, 2)
    /\ buffer # buffer0

\* every row moved up by one at once, and the bottom row blank
AtomicShift(grid) ==
    [row \in Rows |->
        IF row < LastRow THEN grid[row + 1] ELSE [col \in Cols |-> Blank]]

\* C16: no read of new_line returns a value other than the one the cell had
\* when the new_line started; a write_byte that runs new_line reads each
\* cell of rows 1..24 once, writes each cell of rows 0..23 once and clears
\* the 80 cells of row 24; and the grid it leaves is the old grid with every
\* row moved up by one at once and row 24 blank (with the byte stored at
\* column 0 of row 24 when the new_line was a wrap).
C16_ScrollIsShift ==
    /\ stale = 0
    /\ (call.op = "write_byte" /\ (call.arg[1] = NEWLINE \/ column0 >= BUFFER_WIDTH)) =>
          /\ ~fault
          /\ scrolled = <<1>>
          /\ touched = NewLineTouches + (IF call.arg[1] = NEWLINE THEN 0 ELSE 1)
          /\ buffer = IF call.arg[1] = NEWLINE THEN AtomicShift(buffer0)
                      ELSE [AtomicShift(buffer0) EXCEPT
                               ![LastRow][0] = ScreenChar(call.arg[1], color_code)]

C16_Witness ==
    /\ call = [op |-> "write_byte", arg |-> <<NEWLINE>>]
    /\ column0 = 3
    /\ buffer0[LastRow][0].ascii_character = 120
    /\ buffer[LastRow - 1][0].ascii_character = 120
    /\ buffer[0][0].ascii_character = 16
    /\ buffer[LastRow][0] = Blank
    /\ column_position = 0

----------------------------------------------------------------------------
\* Further properties of _print called from several contexts (ConcSpec)

\* C17: a context holds the lock from its first byte to its last, between
\* the fragments of its arguments too, and the bytes of one _print are
\* applied to the writer one after the other: no byte of another caller
\* lies between two bytes of the same caller.
C17_Consecutive ==
    /\ \A c \in Ctx :
          pc[c] \in {"byte", "store_ch", "store_cc", "inc", "unlock"} => lock = c
    /\ \A i \in 1 .. Len(applied) : \A j \in i .. Len(applied) :
          applied[i][1] = applied[j][1] =>
              \A k \in i .. j : applied[k][1] = applied[i][1]

C17_Witness ==
    /\ lock = "t1"
    /\ pc["t1"] = "byte" /\ pos["t1"].frag = 2
    /\ pc["t2"] = "lock" /\ failed["t2"]
    /\ applied = << <<"t1", 97>>, <<"t1", 98>> >>

----------------------------------------------------------------------------
\* The bottom row and the reference terminal (Spec)

\* C18: the bytes stored since the last new_line are as many as
\* column_position and fill row 24 from column 0 in order; once a new_line
\* has run, the cells of row 24 from column_position on are blank; before
\* the first new_line the grid is an initial grid except for row 24 below
\* column_position.
C18_BottomRow ==
    /\ Len(line) = column_position
    /\ \A col \in Cols :
          col < column_position =>
              buffer[LastRow][col] = ScreenChar(line[col + 1], color_code)
    /\ lines > 0 =>
          \A col \in Cols : col >= column_position => buffer[LastRow][col] = Blank
    /\ lines = 0 =>
          \E grid \in InitialGrids :
              /\ \A row \in Rows \ {LastRow} : buffer[row] = grid[row]
              /\ \A col \in Cols :
                    col >= column_position => buffer[LastRow][col] = grid[LastRow][col]

C18_Witness ==
    /\ lines = 1
    /\ column_position = 1
    /\ line = <<113>>
    /\ buffer[LastRow][0] = ScreenChar(113, color_code)
    /\ buffer[LastRow][1] = Blank
    /\ buffer[LastRow - 1][BUFFER_WIDTH - 1] = ScreenChar(112, color_code)

\* the call writes nothing but a newline
NewlineCall ==
    \/ call = [op |-> "write_byte", arg |-> <<NEWLINE>>]
    \/ call = [op |-> "write_string", arg |-> <<NEWLINE>>]

\* C19: a write_string of 80 bytes other than newline from column 0 ends at
\* column 80 without a new_line, the bytes in row 24; a newline written at
\* column 80 then runs new_line exactly once: the full row moves to row 23
\* and every other row up by one, row 24 is blank and column_position is 0,
\* so no blank row separates the full line from the next.
C19_DeferredWrap ==
    /\ (/\ call.op = "write_string"
        /\ column0 = 0
        /\ Len(call.arg) = BUFFER_WIDTH
        /\ \A i \in 1 .. Len(call.arg) : Sanitise(call.arg[i]) # NEWLINE) =>
          /\ ~fault
          /\ column_position = BUFFER_WIDTH
          /\ scrolled = <<>>
          /\ \A row \in Rows \ {LastRow} : buffer[row] = buffer0[row]
          /\ \A col \in Cols :
                buffer[LastRow][col] = ScreenChar(Sanitise(call.arg[col + 1]), color_code)
    /\ (NewlineCall /\ column0 = BUFFER_WIDTH) =>
          /\ ~fault
          /\ scrolled = <<1>>
          /\ column_position = 0
          /\ \A row \in Rows \ {LastRow} : buffer[row] = buffer0[row + 1]
          /\ \A col \in Cols : buffer[LastRow][col] = Blank
          /\ \E col \in Cols : buffer[LastRow - 1][col] # Blank

C19_Witness ==
    /\ call = [op |-> "write_byte", arg |-> <<NEWLINE>>]
    /\ column0 = BUFFER_WIDTH
    /\ scrolled = <<1>>
    /\ column_position = 0
    /\ buffer[LastRow - 1][0] = ScreenChar(97, color_code)
    /\ buffer[LastRow - 1][BUFFER_WIDTH - 1] = ScreenChar(81, color_code)
    /\ buffer[LastRow][0] = Blank

\* the reference terminal: the lines finished so far and the current line
RefStep(st, byte) ==
    IF byte = NEWLINE
    THEN [finished |-> Append(st.finished, st.cur), cur |-> <<>>]
    ELSE IF Len(st.cur) = BUFFER_WIDTH
    THEN [finished |-> Append(st.finished, st.cur), cur |-> <<byte>>]
    ELSE [st EXCEPT !.cur = Append(@, byte)]

\* the bytes lo .. hi - 1 of the stream given to the reference terminal
RECURSIVE RefFold(_, _, _)
RefFold(st, lo, hi) ==
    IF Len(st.cur) > BUFFER_WIDTH \/ lo >= hi THEN st
    ELSE IF hi = lo + 1 THEN RefStep(st, stream[lo])
    ELSE LET mid == (lo + hi) \div 2
         IN  RefFold(RefFold(st, lo, mid), mid, hi)

Reference == RefFold([finished |-> <<>>, cur |-> <<>>], 1, Len(stream) + 1)

\* a line shown over a row: its bytes with the attribute, then the row
Over(text, under) ==
    [col \in Cols |->
        IF col < Len(text) THEN ScreenChar(text[col + 1], color_code) ELSE under[col]]

BlankRow == [col \in Cols |-> Blank]

\* the row the reference terminal shows at `row` on top of the initial grid:
\* the lines are numbered from 1, the current line last, and shown from row
\* 24 upwards; `first` is the row under the first line, blank under the others
Shown(ref, grid, first, row) ==
    LET at == row + Len(ref.finished)
        all == Append(ref.finished, ref.cur)
    IN  IF at < LastRow THEN grid[at]
        ELSE Over(all[at - LastRow + 1], IF at = LastRow THEN first ELSE BlankRow)

\* C20 as the spec states it: after a write_string, every line of the
\* reference terminal, the current one too, is shown padded with blanks.
C20_PaddedWithBlanks ==
    (call.op = "write_string" /\ stream # <<>>) =>
        LET ref == Reference
        IN  /\ ~fault
            /\ Len(ref.finished) = lines
            /\ \E grid \in InitialGrids :
                  \A row \in Rows : buffer[row] = Shown(ref, grid, BlankRow, row)
            /\ scrolled = <<>> =>
                  \A row \in Rows \ {LastRow} : buffer[row] = buffer0[row]

\* C20, amended: the grid is the reference terminal's: the stream split at
\* each newline and after 80 bytes followed by another byte, the current
\* line in row 24 and the k-th most recently finished line in row 24 - k,
\* the rows above holding the initial grid moved up; the first line of the
\* stream is shown over the initial content of row 24, every later line over
\* blanks; there are as many finished lines as new_line runs, and a call
\* that runs no new_line leaves rows 0..23 alone.
C20_Reference ==
    LET ref == Reference
    IN  /\ ~fault
        /\ Len(ref.finished) = lines
        /\ \E grid \in InitialGrids :
              \A row \in Rows : buffer[row] = Shown(ref, grid, grid[LastRow], row)
        /\ scrolled = <<>> => \A row \in Rows \ {LastRow} : buffer[row] = buffer0[row]

C20_Witness ==
    /\ stream = <<72, 105, NEWLINE, 33, NEWLINE>>
    /\ lines = 2
    /\ buffer[LastRow - 2][0] = ScreenChar(72, color_code)
    /\ buffer[LastRow - 2][2] = ScreenChar(130, 7)
    /\ buffer[LastRow - 1][0] = ScreenChar(33, color_code)
    /\ buffer[LastRow - 1][1] = Blank
    /\ buffer[LastRow][0] = Blank

====
